---- MODULE Spec2Model ----
(***************************************************************************)
(* Frame pacing pipeline of the 3D avatar chat client.                     *)
(*                                                                         *)
(*   useAnimationData (src/lib/hooks/useAnimationData.ts) receives data    *)
(*   packets from the agent, downsamples 208-byte frames 3:1 into          *)
(*   frameQueue, and a 16.67 ms interval moves one entry per tick into the *)
(*   React state latestFrame.  AvatarView (src/pages/AvatarView.tsx)       *)
(*   forwards latestFrame and the interrupt token to the Unity module from *)
(*   React effects.                                                        *)
(*                                                                         *)
(* React is modelled by its contract: a setState call changes the hook     *)
(* state at once, the component function sees it at the next render, and   *)
(* an effect runs after a render when one of its dependencies differs      *)
(* (Object.is) from the previous render.  The variable `rendered` is the   *)
(* snapshot of the last render.                                            *)
(*                                                                         *)
(* The repository holds two versions of AvatarView.  They differ in where  *)
(* the frame effect keeps its diagnostics: AvatarView.tsx in two refs that *)
(* an unmount effect resets (firstUnityFrameTimeRef, unitySentCountRef),   *)
(* the earlier version in two module-level variables (firstUnityFrameTime, *)
(* unitySentCount).  Render updates both pairs.                            *)
(*                                                                         *)
(* In ADK mode App (src/App.tsx) copies the messages of the avatar         *)
(* conversation to the ADK session when the screen switches to chat        *)
(* (handleSwitchToChat, sessionAPIClient.injectBatchEvents).               *)
(*                                                                         *)
(* The specifications share the actions:                                   *)
(*   Spec        the whole pipeline;                                       *)
(*   SpecHook    useAnimationData alone, with a larger event budget;       *)
(*   SpecPacket  useAnimationData with the clock, the input of every       *)
(*               DataReceived call recorded in lastOp;                     *)
(*   SpecEmit    one session, with the interrupt of the user;              *)
(*   SpecSync    the screens, the message store and the batch sync;        *)
(*   SpecApi     calls of injectBatchEvents and the responses of the server;*)
(*   SpecHistory one mount of LiveKitProvider over a store of messages;    *)
(*   SpecConvert one call of injectBatchEvents over a list of messages;    *)
(*   SpecStart   the avatar screen up to the start of the conversation,    *)
(*               SpecStartFair with the fairness of effects and timers.    *)
(***************************************************************************)
EXTENDS Integers, Sequences, FiniteSets, TLC

(***************************************************************************)
(* Bounds of the model.                                                    *)
(***************************************************************************)
MaxEvents == 5        \* environment events per behaviour of Spec: agent packets,
                      \* clock steps, mounts, changes of the sendMessage callback
MaxHookEvents == 8    \* the same budget for SpecHook
MaxPacketEvents == 5  \* the same budget for SpecPacket
MaxEmitEvents == 5    \* the same budget for SpecEmit (packets, mounts, user interrupts)
MaxSyncEvents == 4    \* events per behaviour of SpecSync: mounts, messages added,
                      \* invocations of handleSwitchToChat
MaxApiEvents == 2     \* calls of injectBatchEvents per behaviour of SpecApi
MaxStoredMessages == 22  \* messages in the store when LiveKitProvider mounts (SpecHistory)
MaxBatchMessages == 3    \* messages handed to injectBatchEvents (SpecConvert)
MaxStartEvents == 3      \* events per behaviour of SpecStart: mounts, changes of the
                         \* localParticipant or room object

(***************************************************************************)
(* Program constants.                                                      *)
(***************************************************************************)
FrameLength == 208    \* payload.length === 208
DownsampleRatio == 3  \* totalFramesReceived.current % 3 === 0

(***************************************************************************)
(* Text as sequences of code units.                                        *)
(***************************************************************************)
AgentPrefix == <<97, 103, 101, 110, 116>>                              \* 'agent'
FinalText == <<102, 105, 110, 97, 108>>                                \* 'final'
InterruptedText == <<105, 110, 116, 101, 114, 114, 117, 112, 116, 101, 100>> \* 'interrupted'

None == <<>>
Some(x) == <<x>>

(***************************************************************************)
(* Payloads.  The bytes of a packet are a function of its kind; the state  *)
(* stores the kind and the identity (ref) of the Uint8Array object.        *)
(***************************************************************************)
PayloadKinds == {"frame", "final", "interrupted", "other", "bad"}

PayloadBytes(kind) ==
    CASE kind = "frame" -> [i \in 1..FrameLength |-> (i * 7) % 256]
      [] kind = "final" -> FinalText
      [] kind = "interrupted" -> InterruptedText
      [] kind = "other" -> <<115, 116, 111, 112>>                      \* 'stop'
      [] OTHER -> <<255, 102, 105, 110, 97, 108>>                      \* invalid UTF-8 lead byte + 'final'

PayloadLength(kind) == Len(PayloadBytes(kind))

\* a decoder that skips the bytes that start no valid sequence
TextDecoderSkipInvalid(bytes) == SelectSeq(bytes, LAMBDA b : b < 128)

\* new TextDecoder().decode(payload): non-fatal UTF-8 decoding; a byte that
\* starts no valid sequence decodes to U+FFFD.  The payloads of the model
\* contain no multi-byte sequence.
TextDecoderDecode(bytes) ==
    [i \in 1..Len(bytes) |-> IF bytes[i] < 128 THEN bytes[i] ELSE 65533]

(***************************************************************************)
(* Participants: undefined, without identity, or with an identity.         *)
(***************************************************************************)
Participants ==
    { [defined |-> FALSE, identity |-> None],
      [defined |-> TRUE, identity |-> None],
      [defined |-> TRUE, identity |-> Some(<<97, 103, 101, 110, 116, 45, 49>>)],   \* 'agent-1'
      [defined |-> TRUE, identity |-> Some(<<97, 103, 101>>)],                     \* 'age'
      [defined |-> TRUE, identity |-> Some(<<117, 115, 101, 114, 45, 97, 103, 101, 110, 116>>)] } \* 'user-agent'

StartsWith(s, prefix) ==
    /\ Len(s) >= Len(prefix)
    /\ SubSeq(s, 1, Len(prefix)) = prefix


\* a filter that accepts every participant that has an identity
HasIdentity(participant) ==
    /\ participant.defined
    /\ participant.identity # None

\* participant?.identity?.startsWith('agent')
IsAgentSender(participant) ==
    /\ participant.defined
    /\ participant.identity # None
    /\ StartsWith(participant.identity[1], AgentPrefix)

VARIABLES
    mounted,                \* AvatarView (and with it useAnimationData) is mounted
    events,                 \* environment events so far; the ordinal of an agent
                            \* packet is the identity (ref) of its Uint8Array
    now,                    \* Date.now() / performance.now()
    frameQueue,             \* useRef<Uint8Array[]>([])
    firstFrameTime,         \* useRef<number | null>(null)
    totalFramesReceived,    \* useRef(0)
    framesDequeued,         \* useRef(0)
    latestFrame,            \* useState<Uint8Array | null>(null)
    frameCount,             \* useState(0)
    interruptSignal,        \* useState(0)
    isLoaded,               \* useUnityContext().isLoaded
    sendMessage,            \* identity of useUnityContext().sendMessage
    rendered,               \* state and props as seen by the last render
    firstUnityFrameTimeRef, \* AvatarView.tsx: useRef<number | null>(null)
    unitySentCountRef,      \* AvatarView.tsx: useRef(0)
    firstUnityFrameTime,    \* module-level variable of the earlier AvatarView
    unitySentCount,         \* module-level variable of the earlier AvatarView
    unityLog,               \* calls of sendMessage(object, method, parameter)
    hist,                   \* history of the session, for stating properties
    lastOp,                 \* the operation that produced this state
    messages,               \* useSessionStore: messages
    lastBatchSyncedIndex,   \* useSessionIdStore: lastBatchSyncedIndex
    batchCalls,             \* calls of injectBatchEvents that have not settled yet
    injected,               \* the conversations of the calls that succeeded, in order
    apiCalls,               \* SessionAPIClient: the calls of injectBatchEvents, each with
                            \* its stage and the requests it has made
    isSessionCreated,       \* useSessionIdStore: isSessionCreated
    adkCalls,               \* useADK: the calls of sendMessage, each with its stage and
                            \* the requests it has made
    connectCalls,           \* LiveKitProvider: the calls of connect, each with the
                            \* chatHistory it passed
    postedBodies,           \* SessionAPIClient: the conversations of the bodies posted
                            \* to /batch
    conversationStarted,    \* App: useState conversationStarted
    isAgentReady,           \* App: useState isAgentReady
    agentState,             \* LiveKitSessionHandler: the state of the agent
    localParticipant,       \* the identity of the localParticipant and room objects
    hasStartedConversation, \* AvatarView: hasStartedConversation.current
    startTimer,             \* AvatarView: the 1.5 s timer is pending
    startDeps,              \* the dependencies of the last run of the start effect
    startRpcs               \* the start_conversation RPCs of this session, each with
                            \* the component that sent it

hookRefs == <<frameQueue, firstFrameTime, totalFramesReceived, framesDequeued>>
hookState == <<latestFrame, frameCount, interruptSignal>>
unityCtx == <<isLoaded, sendMessage>>
viewRefs == <<firstUnityFrameTimeRef, unitySentCountRef>>
moduleVars == <<firstUnityFrameTime, unitySentCount>>
syncVars == <<messages, lastBatchSyncedIndex, batchCalls, injected>>
apiVars == <<apiCalls>>
\* the variables of the clients beside the pipeline and the batch sync
adkVars == <<isSessionCreated, adkCalls>>
\* the variables of the LiveKit connection
liveKitVars == <<connectCalls>>
\* the variables of the request bodies
bodyVars == <<postedBodies>>
\* the variables outside the pipeline, the batch sync and the two clients
\* App state of the avatar screen
appVars == <<conversationStarted, isAgentReady>>
\* the variables of the start_conversation effect of AvatarView
startVars == <<agentState, localParticipant, hasStartedConversation, startTimer,
               startDeps, startRpcs>>
restVars == <<liveKitVars, bodyVars, appVars, startVars>>
clientVars == <<apiVars, adkVars, restVars>>
\* the variables of the pipeline, the screen apart
pipelineVars == <<now, hookRefs, hookState, unityCtx, rendered, viewRefs, moduleVars,
                  unityLog, hist>>
vars == <<mounted, events, now, frameQueue, firstFrameTime,
          totalFramesReceived, framesDequeued, latestFrame, frameCount,
          interruptSignal, isLoaded, sendMessage, rendered,
          firstUnityFrameTimeRef, unitySentCountRef, firstUnityFrameTime,
          unitySentCount, unityLog, hist, lastOp,
          messages, lastBatchSyncedIndex, batchCalls, injected, apiCalls,
          isSessionCreated, adkCalls, connectCalls, postedBodies,
          conversationStarted, isAgentReady, agentState, localParticipant,
          hasStartedConversation, startTimer, startDeps, startRpcs>>

Snapshot(lf, is, il, sm) ==
    [latestFrame |-> lf, interruptSignal |-> is, isLoaded |-> il, sendMessage |-> sm]

HistInit ==
    [session |-> 0,         \* ordinal of the session (mount)
     framesSeen |-> 0,      \* 208-byte agent packets handled this session
     pushedOrds |-> <<>>,   \* for each frame pushed, its ordinal among the frames seen
     admitted |-> <<>>,     \* entries pushed to frameQueue this session, in order
     dequeued |-> <<>>,     \* entries shifted from frameQueue this session, in order;
                            \* loaded: the view had rendered with isLoaded by then
     run |-> 0,             \* entries dequeued since the last agent packet was handled
     barged |-> {},         \* entries in frameQueue when handleInterruptAgent sent 'interrupted'
     interrupts |-> 0,      \* agent 'interrupted' packets handled this session
     interruptsLoaded |-> 0, \* those handled after the view had rendered with isLoaded
     cancelled |-> {}]      \* refs pending (not forwarded) when an interrupt was handled

\* name: the operation; arg: the length of frameQueue before it (packets and
\* ticks); packet: the input of the DataReceived handler, when it is recorded
Op(name, arg) == [name |-> name, arg |-> arg, packet |-> None]
PacketOp(name, arg, kind, participant, record) ==
    [name |-> name, arg |-> arg,
     packet |-> IF record THEN Some([kind |-> kind, participant |-> participant]) ELSE None]

\* The values every useState / useRef of a mount starts from.
ComponentInit ==
    /\ frameQueue = <<>>
    /\ firstFrameTime = None
    /\ totalFramesReceived = 0
    /\ framesDequeued = 0
    /\ latestFrame = None
    /\ frameCount = 0
    /\ interruptSignal = 0
    /\ isLoaded = FALSE
    /\ sendMessage = 0
    /\ rendered = Snapshot(None, 0, FALSE, 0)
    /\ firstUnityFrameTimeRef = None
    /\ unitySentCountRef = 0

\* the state after construction, the message store apart
InitExceptMessages ==
    /\ mounted = FALSE
    /\ events = 0
    /\ now = 1
    /\ ComponentInit
    /\ firstUnityFrameTime = None
    /\ unitySentCount = 0
    /\ unityLog = <<>>
    /\ hist = HistInit
    /\ lastOp = Op("init", 0)
    /\ lastBatchSyncedIndex = 0
    /\ batchCalls = <<>>
    /\ injected = <<>>
    /\ apiCalls = <<>>
    /\ isSessionCreated = FALSE
    /\ adkCalls = <<>>
    /\ connectCalls = <<>>
    /\ postedBodies = <<>>
    /\ conversationStarted = FALSE
    /\ isAgentReady = FALSE
    /\ agentState = "connecting"
    /\ localParticipant = 1
    /\ hasStartedConversation = FALSE
    /\ startTimer = FALSE
    /\ startDeps = None
    /\ startRpcs = <<>>

Init ==
    /\ InitExceptMessages
    /\ messages = <<>>

(***************************************************************************)
(* useAnimationData: the DataReceived handler.                             *)
(***************************************************************************)

\* a downsampler that admits the first frame of every three
ShouldAdmitFirstOfThree(total) == total % DownsampleRatio = 1

\* totalFramesReceived.current % 3 === 0
ShouldAdmit(total) == total % DownsampleRatio = 0


\* an interrupt that drops only the oldest entry
ClearedOldestOnly(queue) == IF queue = <<>> THEN <<>> ELSE Tail(queue)

\* frameQueue.current = []
ClearedQueue(queue) == <<>>

Refs(seq) == {seq[i].ref : i \in 1..Len(seq)}
SentRefs(log) == {log[i].ref : i \in 1..Len(log)} \ {0}

\* entries received and not yet forwarded to the rendering module
PendingRefs == (Refs(frameQueue) \cup Refs(latestFrame)) \ SentRefs(unityLog)

ReceiveFrame(kind) ==
    LET payload == [ref |-> events + 1, kind |-> kind]
        total == totalFramesReceived + 1
    IN  /\ firstFrameTime' = IF firstFrameTime = None THEN Some(now) ELSE firstFrameTime
        /\ totalFramesReceived' = total
        /\ frameQueue' = IF ShouldAdmit(total) THEN Append(frameQueue, payload) ELSE frameQueue
        /\ hist' = [hist EXCEPT !.framesSeen = @ + 1,
                                !.run = 0,
                                !.pushedOrds = IF Len(frameQueue') > Len(frameQueue)
                                               THEN Append(@, hist.framesSeen + 1)
                                               ELSE @,
                                !.admitted = IF Len(frameQueue') > Len(frameQueue)
                                             THEN Append(@, payload)
                                             ELSE @]
        /\ UNCHANGED <<framesDequeued, hookState>>


\* a 'final' that is counted and downsampled like a frame
ReceiveFinalDownsampled(kind) ==
    LET payload == [ref |-> events + 1, kind |-> kind]
        total == totalFramesReceived + 1
    IN  /\ totalFramesReceived' = total
        /\ frameQueue' = IF ShouldAdmit(total) THEN Append(frameQueue, payload) ELSE frameQueue
        /\ hist' = [hist EXCEPT !.admitted = IF ShouldAdmit(total) THEN Append(@, payload) ELSE @]
        /\ UNCHANGED <<firstFrameTime, framesDequeued, hookState>>

ReceiveFinal(kind) ==
    LET payload == [ref |-> events + 1, kind |-> kind]
    IN  /\ frameQueue' = Append(frameQueue, payload)
        /\ hist' = [hist EXCEPT !.admitted = Append(@, payload), !.run = 0]
        /\ UNCHANGED <<firstFrameTime, totalFramesReceived, framesDequeued, hookState>>

ReceiveInterrupted ==
    /\ frameQueue' = ClearedQueue(frameQueue)
    /\ interruptSignal' = now                       \* setInterruptSignal(Date.now())
    /\ hist' = [hist EXCEPT !.interrupts = @ + 1,
                            !.run = 0,
                            !.interruptsLoaded = IF rendered.isLoaded THEN @ + 1 ELSE @,
                            !.cancelled = @ \cup PendingRefs]
    /\ UNCHANGED <<firstFrameTime, totalFramesReceived, framesDequeued,
                   latestFrame, frameCount>>

\* a test that takes 'interrupted' for a final marker too
IsFinalOrInterrupted(message) == message \in {FinalText, InterruptedText}

\* the two control signals the handler acts on
IsFinal(message) == message = FinalText
IsInterrupted(message) == message = InterruptedText

\* A packet the handler acts on is an environment event; a packet it ignores
\* or drops leaves the state as it is and needs no budget.
handleDataReceived(kind, participant, max, record) ==
    /\ mounted
    /\ IF ~IsAgentSender(participant)
       THEN /\ lastOp' = PacketOp("ignored", Len(frameQueue), kind, participant, record)
            /\ UNCHANGED <<events, hookRefs, hookState, hist>>
       ELSE IF PayloadLength(kind) = FrameLength
       THEN /\ events < max
            /\ events' = events + 1
            /\ ReceiveFrame(kind)
            /\ lastOp' = PacketOp("frame", Len(frameQueue), kind, participant, record)
       ELSE LET message == TextDecoderDecode(PayloadBytes(kind))
            IN  IF IsFinal(message)
                THEN /\ events < max
                     /\ events' = events + 1
                     /\ ReceiveFinal(kind)
                     /\ lastOp' = PacketOp("final", Len(frameQueue), kind, participant, record)
                ELSE IF IsInterrupted(message)
                THEN /\ events < max
                     /\ events' = events + 1
                     /\ ReceiveInterrupted
                     /\ lastOp' = PacketOp("interrupted", Len(frameQueue), kind, participant, record)
                ELSE /\ lastOp' = PacketOp("dropped", Len(frameQueue), kind, participant, record)
                     /\ UNCHANGED <<events, hookRefs, hookState, hist>>
    /\ UNCHANGED <<mounted, now, unityCtx, rendered, viewRefs, moduleVars, unityLog>>
    /\ UNCHANGED syncVars
    /\ UNCHANGED clientVars

(***************************************************************************)
(* useAnimationData: the 16.67 ms interval.                                *)
(***************************************************************************)

\* a tick that takes the newest entry (pop) instead of the oldest (shift)
PoppedFrame(queue) == queue[Len(queue)]


\* a tick that removes two entries when it can
ShiftedTwo(queue) == IF Len(queue) > 1 THEN Tail(Tail(queue)) ELSE Tail(queue)

\* a tick that reads the oldest entry and leaves it in the queue
ShiftedNone(queue) == queue

\* frameQueue.current.shift(): the removed element and the rest
ShiftedFrame(queue) == Head(queue)
ShiftedRest(queue) == Tail(queue)

Tick ==
    /\ mounted
    /\ lastOp' = Op("tick", Len(frameQueue))
    /\ IF Len(frameQueue) > 0
       THEN /\ latestFrame' = Some(ShiftedFrame(frameQueue))
            /\ frameQueue' = ShiftedRest(frameQueue)
            /\ frameCount' = frameCount + 1
            /\ framesDequeued' = framesDequeued + 1
            /\ hist' = [hist EXCEPT !.dequeued =
                            Append(@, [ref |-> ShiftedFrame(frameQueue).ref,
                                       loaded |-> rendered.isLoaded]),
                                    !.run = @ + 1]
       ELSE UNCHANGED <<latestFrame, frameQueue, frameCount, framesDequeued, hist>>
    /\ UNCHANGED <<mounted, events, now, firstFrameTime, totalFramesReceived,
                   interruptSignal, unityCtx, rendered, viewRefs, moduleVars, unityLog>>
    /\ UNCHANGED syncVars
    /\ UNCHANGED clientVars

(***************************************************************************)
(* AvatarView: render and effects.                                         *)
(***************************************************************************)
Call(parameter, ref) ==
    [object |-> "ReactBridge", method |-> "OnAnimationData",
     parameter |-> parameter, ref |-> ref]

\* useEffect(..., [interruptSignal, isLoaded, sendMessage])
InterruptEffectRuns(old, new) ==
    \/ old.interruptSignal # new.interruptSignal
    \/ old.isLoaded # new.isLoaded
    \/ old.sendMessage # new.sendMessage

InterruptEffect(old, new, log) ==
    IF InterruptEffectRuns(old, new) /\ new.interruptSignal > 0 /\ new.isLoaded
    THEN Append(log, Call([text |-> "interrupted"], 0))
    ELSE log

\* useEffect(..., [isLoaded, latestFrame, sendMessage])
FrameEffectRuns(old, new) ==
    \/ old.isLoaded # new.isLoaded
    \/ old.latestFrame # new.latestFrame
    \/ old.sendMessage # new.sendMessage

FrameEffectSends(old, new) ==
    FrameEffectRuns(old, new) /\ new.isLoaded /\ new.latestFrame # None

\* frameString: Array.from(latestFrame).join(',') when the length is 208,
\* new TextDecoder().decode(latestFrame) otherwise
FrameString(frame) ==
    IF PayloadLength(frame.kind) = FrameLength
    THEN [join |-> frame.kind]
    ELSE [decode |-> frame.kind]

\* String(n) of a number: its decimal digits, as code units
NumberToString(n) ==
    LET digits[m \in 0..n] ==
            IF m < 10 THEN <<48 + m>> ELSE digits[m \div 10] \o <<48 + (m % 10)>>
    IN  digits[n]

\* a join that puts a space between the elements
RECURSIVE ArrayJoinSpace(_)
ArrayJoinSpace(array) ==
    IF Len(array) = 0 THEN <<>>
    ELSE IF Len(array) = 1 THEN NumberToString(array[1])
    ELSE LET half == Len(array) \div 2
         IN  ArrayJoinSpace(SubSeq(array, 1, half)) \o <<32>>
                 \o ArrayJoinSpace(SubSeq(array, half + 1, Len(array)))

\* Array.from(latestFrame).join(','): the elements as decimal numbers,
\* separated by ','; the join of an array is the join of its two halves with
\* a ',' in between
RECURSIVE ArrayJoin(_)
ArrayJoin(array) ==
    IF Len(array) = 0 THEN <<>>
    ELSE IF Len(array) = 1 THEN NumberToString(array[1])
    ELSE LET half == Len(array) \div 2
         IN  ArrayJoin(SubSeq(array, 1, half)) \o <<44>>
                 \o ArrayJoin(SubSeq(array, half + 1, Len(array)))

\* the characters of the frameString that sendMessage receives, for each
\* payload kind and each branch of the conditional
FrameStringText ==
    [kind \in PayloadKinds |->
        [join |-> ArrayJoin(PayloadBytes(kind)),
         decode |-> TextDecoderDecode(PayloadBytes(kind))]]

\* the characters of the parameter of a call to sendMessage
ParameterText(parameter) ==
    IF "join" \in DOMAIN parameter THEN FrameStringText[parameter.join].join
    ELSE IF "decode" \in DOMAIN parameter THEN FrameStringText[parameter.decode].decode
    ELSE InterruptedText

FrameEffect(old, new, log) ==
    IF FrameEffectSends(old, new)
    THEN Append(log, Call(FrameString(new.latestFrame[1]), new.latestFrame[1].ref))
    ELSE log

CurrentSnapshot == Snapshot(latestFrame, interruptSignal, isLoaded, sendMessage)

\* a state change is waiting for a render
NeedsRender == mounted /\ rendered # CurrentSnapshot

\* The effects run in the order of their declaration: the interrupt effect
\* (AvatarView.tsx 256-260) before the frame effect (269-295).
Render ==
    LET old == rendered
        new == CurrentSnapshot
    IN  /\ NeedsRender
        /\ rendered' = new
        /\ unityLog' = FrameEffect(old, new, InterruptEffect(old, new, unityLog))
        /\ IF FrameEffectSends(old, new)
           THEN /\ firstUnityFrameTimeRef' =
                       IF firstUnityFrameTimeRef = None THEN Some(now) ELSE firstUnityFrameTimeRef
                /\ unitySentCountRef' = unitySentCountRef + 1
                /\ firstUnityFrameTime' =
                       IF firstUnityFrameTime = None THEN Some(now) ELSE firstUnityFrameTime
                /\ unitySentCount' = unitySentCount + 1
           ELSE UNCHANGED <<viewRefs, moduleVars>>
        /\ lastOp' = Op("render", Len(unityLog))
        /\ UNCHANGED <<mounted, events, now, hookRefs, hookState, unityCtx, hist>>
        /\ UNCHANGED syncVars
        /\ UNCHANGED clientVars

\* The user double-clicks the mic button.  localParticipant and room are set
\* while AvatarView is mounted; isLoaded and sendMessage are those of the last
\* render.  The RPC 'interrupt_agent' goes to the agent and writes no state
\* of the page.
handleInterruptAgent(max) ==
    /\ mounted
    /\ events < max
    /\ events' = events + 1
    /\ unityLog' = IF rendered.isLoaded
                   THEN Append(unityLog, Call([text |-> "interrupted"], 0))
                   ELSE unityLog
    /\ hist' = [hist EXCEPT !.barged = IF rendered.isLoaded
                                       THEN @ \cup {frameQueue[i].ref : i \in 1..Len(frameQueue)}
                                       ELSE @]
    /\ lastOp' = Op("interruptAgent", Len(frameQueue))
    /\ UNCHANGED <<mounted, now, hookRefs, hookState, unityCtx, rendered,
                   viewRefs, moduleVars>>
    /\ UNCHANGED syncVars
    /\ UNCHANGED clientVars

(***************************************************************************)
(* The Unity context and the session life cycle.                           *)
(***************************************************************************)
\* the Unity module finishes loading
UnityLoaded ==
    /\ mounted
    /\ ~isLoaded
    /\ isLoaded' = TRUE
    /\ lastOp' = Op("loaded", 0)
    /\ UNCHANGED <<mounted, events, now, hookRefs, hookState, sendMessage,
                   rendered, viewRefs, moduleVars, unityLog, hist>>
    /\ UNCHANGED syncVars
    /\ UNCHANGED clientVars

\* useUnityContext returns a new sendMessage callback
SendMessageChanged(max) ==
    /\ mounted
    /\ events < max
    /\ events' = events + 1
    /\ sendMessage' = sendMessage + 1
    /\ lastOp' = Op("sendMessage", 0)
    /\ UNCHANGED <<mounted, now, hookRefs, hookState, isLoaded,
                   rendered, viewRefs, moduleVars, unityLog, hist>>
    /\ UNCHANGED syncVars
    /\ UNCHANGED clientVars

\* every useState / useRef of the component takes its initial value
ComponentReset ==
    /\ frameQueue' = <<>>
    /\ firstFrameTime' = None
    /\ totalFramesReceived' = 0
    /\ framesDequeued' = 0
    /\ latestFrame' = None
    /\ frameCount' = 0
    /\ interruptSignal' = 0
    /\ isLoaded' = FALSE
    /\ sendMessage' = 0
    /\ rendered' = Snapshot(None, 0, FALSE, 0)
    /\ firstUnityFrameTimeRef' = None
    /\ unitySentCountRef' = 0

\* screen becomes 'avatar': AvatarView mounts with a new Unity context; the
\* first render runs the effects, which send nothing (interruptSignal is 0,
\* latestFrame is null).
Mount(max) ==
    /\ ~mounted
    /\ events < max
    /\ events' = events + 1
    /\ mounted' = TRUE
    /\ ComponentReset
    /\ unityLog' = <<>>
    /\ hist' = [HistInit EXCEPT !.session = hist.session + 1]
    /\ lastOp' = Op("mount", 0)
    /\ conversationStarted' = FALSE
    /\ isAgentReady' = FALSE
    /\ agentState' = "connecting"
    /\ hasStartedConversation' = FALSE
    /\ startTimer' = FALSE
    /\ startDeps' = None
    /\ startRpcs' = <<>>
    /\ UNCHANGED <<now, moduleVars, localParticipant>>
    /\ UNCHANGED syncVars
    /\ UNCHANGED <<apiVars, adkVars, liveKitVars, bodyVars>>

\* LiveKit disconnect or switch to chat: AvatarView unmounts.  The interval
\* is cleared, the listener removed, the unmount effect resets the refs
\* (AvatarView.tsx 111-116) and the state of the component is dropped.
Unmount ==
    /\ mounted
    /\ mounted' = FALSE
    /\ ComponentReset
    /\ lastOp' = Op("unmount", 0)
    /\ startTimer' = FALSE
    /\ UNCHANGED <<events, now, moduleVars, unityLog, hist>>
    /\ UNCHANGED syncVars
    /\ UNCHANGED <<apiVars, adkVars, liveKitVars, bodyVars, appVars, agentState,
                   localParticipant, hasStartedConversation, startDeps, startRpcs>>

\* the millisecond clock advances
Tock(max) ==
    /\ events < max
    /\ events' = events + 1
    /\ now' = now + 1
    /\ lastOp' = Op("tock", 0)
    /\ UNCHANGED <<mounted, hookRefs, hookState, unityCtx, rendered,
                   viewRefs, moduleVars, unityLog, hist>>
    /\ UNCHANGED syncVars
    /\ UNCHANGED clientVars

(***************************************************************************)
(* Spec: the whole pipeline.                                               *)
(***************************************************************************)
DataReceived ==
    \E kind \in PayloadKinds, participant \in Participants :
        handleDataReceived(kind, participant, MaxEvents, FALSE)

SendMessageChange == SendMessageChanged(MaxEvents)
MountView == Mount(MaxEvents)
ClockStep == Tock(MaxEvents)

Next ==
    \/ DataReceived
    \/ Tick
    \/ Render
    \/ UnityLoaded
    \/ SendMessageChange
    \/ MountView
    \/ Unmount
    \/ ClockStep

Spec == Init /\ [][Next]_vars

(***************************************************************************)
(* SpecHook: useAnimationData alone, with a larger budget.  Render,        *)
(* UnityLoaded and the sendMessage callback read the state of the hook and *)
(* never write it, so the hook behaves the same with them left out.        *)
(***************************************************************************)
HookDataReceived ==
    \E kind \in PayloadKinds, participant \in Participants :
        handleDataReceived(kind, participant, MaxHookEvents, FALSE)

HookMount == Mount(MaxHookEvents)

NextHook ==
    \/ HookDataReceived
    \/ Tick
    \/ HookMount
    \/ Unmount

SpecHook == Init /\ [][NextHook]_vars

(***************************************************************************)
(* SpecPacket: useAnimationData with the clock, every packet handled being *)
(* recorded in lastOp with its payload kind and its sender.                *)
(***************************************************************************)
PacketDataReceived ==
    \E kind \in PayloadKinds, participant \in Participants :
        handleDataReceived(kind, participant, MaxPacketEvents, TRUE)

PacketMount == Mount(MaxPacketEvents)
PacketClockStep == Tock(MaxPacketEvents)

NextPacket ==
    \/ PacketDataReceived
    \/ Tick
    \/ PacketMount
    \/ Unmount
    \/ PacketClockStep

SpecPacket == Init /\ [][NextPacket]_vars

(***************************************************************************)
(* SpecEmit: one session from the packet to the call to the rendering      *)
(* module and the interrupt of the user, with no unmount, no clock step and *)
(* one sendMessage callback.                                               *)
(***************************************************************************)
EmitDataReceived ==
    \E kind \in PayloadKinds, participant \in Participants :
        handleDataReceived(kind, participant, MaxEmitEvents, FALSE)

EmitMount == Mount(MaxEmitEvents)
InterruptAgent == handleInterruptAgent(MaxEmitEvents)

NextEmit ==
    \/ EmitDataReceived
    \/ Tick
    \/ Render
    \/ UnityLoaded
    \/ EmitMount
    \/ InterruptAgent

SpecEmit == Init /\ [][NextEmit]_vars

(***************************************************************************)
(* ADK mode: the message store and the batch sync of App.  The chat screen *)
(* talks to the ADK API (useADK), the avatar screen to LiveKit; both write *)
(* the messages of useSessionStore.  The screen is 'avatar' when           *)
(* AvatarView is mounted and 'chat' otherwise.  The id of a message is its *)
(* position in the store (no message is ever removed).  The Session API is *)
(* configured.                                                             *)
(***************************************************************************)
\* a ChatMessage: who wrote it to the store, isFinal, and whether
\* message.trim() is empty
ChatMessage(source, isFinal, empty) ==
    [source |-> source, isFinal |-> isFinal, empty |-> empty]

\* useSessionStore: addMessage, updateMessage
addMessage(list, message) == Append(list, message)
updateMessage(list, id, message) == [list EXCEPT ![id] = message]

\* the ids of messages.slice(index)
Slice(list, index) == (index + 1)..Len(list)

\* SessionAPIClient.toConversationMessages: the final, non-empty messages
toConversationMessages(list, ids) ==
    {id \in ids : list[id].isFinal /\ ~list[id].empty}

\* setScreen('chat'): AvatarView unmounts if it was mounted
setScreenChat ==
    /\ mounted' = FALSE
    /\ IF mounted
       THEN ComponentReset
       ELSE UNCHANGED <<hookRefs, hookState, unityCtx, rendered, viewRefs>>

\* LiveKitSessionHandler: the first chunk of a transcription adds a message,
\* interim or final
handleTranscription(max) ==
    /\ mounted
    /\ events < max
    /\ events' = events + 1
    /\ \E isFinal \in BOOLEAN :
          messages' = addMessage(messages, ChatMessage("avatar", isFinal, FALSE))
    /\ lastOp' = Op("transcription", Len(messages))
    /\ UNCHANGED <<mounted, now, hookRefs, hookState, unityCtx, rendered, viewRefs,
                   moduleVars, unityLog, hist, lastBatchSyncedIndex, batchCalls, injected>>
    /\ UNCHANGED clientVars

\* LiveKitSessionHandler: the stream of a transcription ends, the message
\* becomes final
TranscriptionEnd ==
    /\ \E id \in 1..Len(messages) :
          /\ messages[id].source = "avatar"
          /\ ~messages[id].isFinal
          /\ messages' = updateMessage(messages, id, ChatMessage("avatar", TRUE, FALSE))
          /\ lastOp' = Op("transcriptionEnd", id)
    /\ UNCHANGED <<mounted, events, now, hookRefs, hookState, unityCtx, rendered, viewRefs,
                   moduleVars, unityLog, hist, lastBatchSyncedIndex, batchCalls, injected>>
    /\ UNCHANGED clientVars

\* a call of useADK.sendMessage: the id of the placeholder of its answer, its
\* stage ("create": the session POST is in flight, "run": the /run_sse request
\* is in flight, "done"), the requests it has made, and whether its session
\* POST succeeded
AdkCall(message, stage, requests, created) ==
    [message |-> message, stage |-> stage, requests |-> requests, created |-> created]

\* a createSession that sends the POST whatever the store says
SessionNeverReady(created) == FALSE

\* createSession: if (isSessionCreated) return true.  The store re-renders
\* its subscribers synchronously, so the value the callback closes over is
\* the value of the store.
SessionReady(created) == created

\* useADK.sendMessage on the chat screen, up to its first pending request:
\* the message of the user and the placeholder of the answer are added, then
\* createSession either returns true at once (and /run_sse is requested) or
\* sends the session POST
ADKSendMessage(max) ==
    /\ ~mounted
    /\ events < max
    /\ events' = events + 1
    /\ messages' = addMessage(addMessage(messages, ChatMessage("adk", TRUE, FALSE)),
                               ChatMessage("adk", FALSE, TRUE))
    /\ adkCalls' = Append(adkCalls,
                          IF SessionReady(isSessionCreated)
                          THEN AdkCall(Len(messages) + 2, "run", <<"run_sse">>, FALSE)
                          ELSE AdkCall(Len(messages) + 2, "create", <<"create">>, FALSE))
    /\ lastOp' = Op("adkSend", Len(messages))
    /\ UNCHANGED <<mounted, now, hookRefs, hookState, unityCtx, rendered, viewRefs,
                   moduleVars, unityLog, hist, lastBatchSyncedIndex, batchCalls, injected>>
    /\ UNCHANGED <<apiVars, restVars, isSessionCreated>>

\* the session POST of createSession settles: on response.ok
\* setSessionCreated(true) and /run_sse is requested; otherwise createSession
\* returns false, sendMessage throws and its catch writes the error text to
\* the placeholder
ADKCreateSessionResponse ==
    /\ \E n \in 1..Len(adkCalls), ok \in BOOLEAN :
          LET call == adkCalls[n]
          IN  /\ call.stage = "create"
              /\ IF ok
                 THEN /\ isSessionCreated' = TRUE
                      /\ adkCalls' = [adkCalls EXCEPT ![n] =
                            AdkCall(call.message, "run", Append(call.requests, "run_sse"), TRUE)]
                      /\ UNCHANGED messages
                 ELSE /\ adkCalls' = [adkCalls EXCEPT ![n] =
                            AdkCall(call.message, "done", call.requests, FALSE)]
                      /\ messages' = updateMessage(messages, call.message,
                                                    ChatMessage("adk", TRUE, FALSE))
                      /\ UNCHANGED isSessionCreated
              /\ lastOp' = Op("adkCreateSession", n)
    /\ UNCHANGED <<mounted, events, now, hookRefs, hookState, unityCtx, rendered, viewRefs,
                   moduleVars, unityLog, hist, lastBatchSyncedIndex, batchCalls, injected>>
    /\ UNCHANGED <<apiVars, restVars>>

\* useADK.sendMessage: the stream of /run_sse ends or fails; the answer (or
\* the error text) is final
ADKResponse ==
    /\ \E n \in 1..Len(adkCalls) :
          /\ adkCalls[n].stage = "run"
          /\ adkCalls' = [adkCalls EXCEPT ![n].stage = "done"]
          /\ messages' = updateMessage(messages, adkCalls[n].message,
                                        ChatMessage("adk", TRUE, FALSE))
          /\ lastOp' = Op("adkResponse", adkCalls[n].message)
    /\ UNCHANGED <<mounted, events, now, hookRefs, hookState, unityCtx, rendered, viewRefs,
                   moduleVars, unityLog, hist, lastBatchSyncedIndex, batchCalls, injected>>
    /\ UNCHANGED <<apiVars, restVars, isSessionCreated>>

\* a call of injectBatchEvents: the index read, the length of messages read,
\* and the conversations sent
BatchCall(first, length, conversations) ==
    [first |-> first, length |-> length, conversations |-> conversations]

\* App.handleSwitchToChat up to its await: the chat button, the back button
\* (of either screen) or the disconnect of LiveKit.  With no new message the
\* screen changes at once; injectBatchEvents returns null with no request when
\* no message is final and non-empty, and the index advances; otherwise a
\* request is in flight and the handler waits.
handleSwitchToChat(max) ==
    LET newMessages == Slice(messages, lastBatchSyncedIndex)
        conversations == toConversationMessages(messages, newMessages)
        call == BatchCall(lastBatchSyncedIndex, Len(messages), conversations)
    IN  /\ events < max
        /\ events' = events + 1
        /\ lastOp' = Op("switchToChat", call)
        /\ IF newMessages = {}
           THEN /\ setScreenChat
                /\ UNCHANGED <<lastBatchSyncedIndex, batchCalls>>
           ELSE IF conversations = {}
           THEN /\ lastBatchSyncedIndex' = Len(messages)
                /\ setScreenChat
                /\ UNCHANGED batchCalls
           ELSE /\ batchCalls' = Append(batchCalls, call)
                /\ UNCHANGED <<mounted, hookRefs, hookState, unityCtx, rendered,
                               viewRefs, lastBatchSyncedIndex>>
        /\ UNCHANGED <<now, moduleVars, unityLog, hist, messages, injected>>
        /\ UNCHANGED clientVars

\* the sequence without its n-th element
Without(seq, n) == SubSeq(seq, 1, n - 1) \o SubSeq(seq, n + 1, Len(seq))

\* injectBatchEvents resolves: setLastBatchSyncedIndex(messages.length) with
\* the messages read before the await, then setScreen('chat')
BatchResolved ==
    /\ \E n \in 1..Len(batchCalls) :
          /\ batchCalls' = Without(batchCalls, n)
          /\ injected' = Append(injected, batchCalls[n].conversations)
          /\ lastBatchSyncedIndex' = batchCalls[n].length
          /\ lastOp' = Op("batchResolved", batchCalls[n])
    /\ setScreenChat
    /\ UNCHANGED <<events, now, moduleVars, unityLog, hist, messages>>
    /\ UNCHANGED clientVars

\* injectBatchEvents rejects: the catch logs the error, then setScreen('chat')
BatchRejected ==
    /\ \E n \in 1..Len(batchCalls) :
          /\ batchCalls' = Without(batchCalls, n)
          /\ lastOp' = Op("batchRejected", batchCalls[n])
    /\ setScreenChat
    /\ UNCHANGED <<events, now, moduleVars, unityLog, hist, messages,
                   lastBatchSyncedIndex, injected>>
    /\ UNCHANGED clientVars

(***************************************************************************)
(* SpecSync: the screens, the message store and the batch sync in ADK      *)
(* mode.                                                                   *)
(***************************************************************************)
SyncMount == Mount(MaxSyncEvents)
Transcription == handleTranscription(MaxSyncEvents)
ADKSend == ADKSendMessage(MaxSyncEvents)
SwitchToChat == handleSwitchToChat(MaxSyncEvents)

NextSync ==
    \/ SyncMount
    \/ Transcription
    \/ TranscriptionEnd
    \/ ADKSend
    \/ ADKCreateSessionResponse
    \/ ADKResponse
    \/ SwitchToChat
    \/ BatchResolved
    \/ BatchRejected

SpecSync == Init /\ [][NextSync]_vars

(***************************************************************************)
(* SessionAPIClient.injectBatchEvents (src/lib/api/session-api.ts), one    *)
(* HTTP exchange per step.  A response is its status; status 0 stands for  *)
(* a fetch that rejects (no response, the error is no SessionAPIError).    *)
(* The Session API is configured.                                          *)
(***************************************************************************)
Responses == {0, 200, 404, 500}

\* response.ok
ResponseOk(status) == status \in 200..299

\* stage: "first" (first POST in flight), "create" (createSession in flight),
\* "retry" (second POST in flight), "resolved", "rejected"
ApiCall(stage, requests, responses) ==
    [stage |-> stage, requests |-> requests, responses |-> responses]

\* a client that creates the session after every 404, also after the retry
AfterBatchFailureAlways(stage, status) ==
    IF status = 404 THEN "create" ELSE "rejected"

\* the catch of injectBatchEvents encloses the first postBatch only: a
\* SessionAPIError with status 404 leads to createSession, anything else, and
\* any failure of the second postBatch, is thrown
AfterBatchFailure(stage, status) ==
    IF stage = "first" /\ status = 404 THEN "create" ELSE "rejected"

\* injectBatchEvents up to its first await: null with no request when no
\* message is final and non-empty, the first POST otherwise
injectBatchEvents(max) ==
    /\ events < max
    /\ events' = events + 1
    /\ \E empty \in BOOLEAN :
          apiCalls' = Append(apiCalls, IF empty
                                       THEN ApiCall("resolved", <<>>, <<>>)
                                       ELSE ApiCall("first", <<"batch">>, <<>>))
    /\ lastOp' = Op("injectBatchEvents", Len(apiCalls))
    /\ UNCHANGED <<mounted, pipelineVars, syncVars, adkVars, restVars>>

\* the response of a batch POST arrives
postBatchResponse ==
    /\ \E n \in 1..Len(apiCalls), status \in Responses :
          LET call == apiCalls[n]
              responses == Append(call.responses, status)
          IN  /\ call.stage \in {"first", "retry"}
              /\ apiCalls' =
                    [apiCalls EXCEPT ![n] =
                        IF ResponseOk(status)
                        THEN ApiCall("resolved", call.requests, responses)
                        ELSE IF AfterBatchFailure(call.stage, status) = "create"
                        THEN ApiCall("create", Append(call.requests, "create"), responses)
                        ELSE ApiCall("rejected", call.requests, responses)]
              /\ lastOp' = Op("postBatchResponse", n)
    /\ UNCHANGED <<mounted, events, pipelineVars, syncVars, adkVars, restVars>>

\* the response of createSession arrives: the second POST follows, or the
\* error is thrown
createSessionResponse ==
    /\ \E n \in 1..Len(apiCalls), status \in Responses :
          LET call == apiCalls[n]
              responses == Append(call.responses, status)
          IN  /\ call.stage = "create"
              /\ apiCalls' =
                    [apiCalls EXCEPT ![n] =
                        IF ResponseOk(status)
                        THEN ApiCall("retry", Append(call.requests, "batch"), responses)
                        ELSE ApiCall("rejected", call.requests, responses)]
              /\ lastOp' = Op("createSessionResponse", n)
    /\ UNCHANGED <<mounted, events, pipelineVars, syncVars, adkVars, restVars>>

(***************************************************************************)
(* SpecApi: calls of injectBatchEvents and the responses of the server.    *)
(***************************************************************************)
InjectBatchEvents == injectBatchEvents(MaxApiEvents)

NextApi ==
    \/ InjectBatchEvents
    \/ postBatchResponse
    \/ createSessionResponse

SpecApi == Init /\ [][NextApi]_vars

(***************************************************************************)
(* LiveKitProvider: the chat history of the auto-connect effect.  A message *)
(* text is modelled by its length and by the number of characters that     *)
(* JSON.stringify writes for each of its characters: 1 for a plain         *)
(* character, 6 for a control character or a lone surrogate.               *)
(***************************************************************************)
MAX_HISTORY_MESSAGES == 20
MAX_MESSAGE_LENGTH == 200
MAX_METADATA_SIZE == 4096
\* the length of the string literal appended to a truncated message: the
\* literal holds the three characters U+00E2 U+20AC U+00A6
TruncationMarkLength == 3

StoredMessage(isUser, isFinal, empty, length, width) ==
    [isUser |-> isUser, isFinal |-> isFinal, empty |-> empty, length |-> length,
     width |-> width]

\* the kinds of message in the store when the provider mounts
StoredMessages ==
    { StoredMessage(TRUE, TRUE, FALSE, 3, 1),
      StoredMessage(FALSE, TRUE, FALSE, 200, 1),
      StoredMessage(TRUE, TRUE, FALSE, 201, 1),
      StoredMessage(TRUE, TRUE, FALSE, 200, 6),
      StoredMessage(FALSE, TRUE, FALSE, 201, 6),
      StoredMessage(FALSE, TRUE, FALSE, 300, 6),
      StoredMessage(FALSE, FALSE, FALSE, 50, 1),
      StoredMessage(TRUE, TRUE, TRUE, 2, 1) }

Repeat(m, k) == [i \in 1..k |-> m]

\* the stores of at most max messages: a run of one kind, then a run of another
StoredLists(max) ==
    { Repeat(x[1], x[3]) \o Repeat(x[2], x[4]) :
        x \in { y \in StoredMessages \X StoredMessages \X (0..max) \X (0..max) :
                  y[3] + y[4] <= max } }

\* messages.filter((m) => m.isFinal !== false && m.message.trim()), as indices
FilterIndices(list) ==
    SelectSeq([i \in 1..Len(list) |-> i],
              LAMBDA i : list[i].isFinal # FALSE /\ ~list[i].empty)

\* .slice(-n)
SliceLast(seq, n) ==
    IF Len(seq) <= n THEN seq ELSE SubSeq(seq, Len(seq) - n + 1, Len(seq))

\* .map((m) => ({ role, content })): the entry of the message at index i, with
\* the length of its content and of the JSON text of its content
HistoryMessage(list, i) ==
    [index |-> i,
     role |-> IF list[i].isUser THEN "user" ELSE "assistant",
     length |-> IF list[i].length > MAX_MESSAGE_LENGTH
                THEN MAX_MESSAGE_LENGTH + TruncationMarkLength
                ELSE list[i].length,
     json |-> IF list[i].length > MAX_MESSAGE_LENGTH
              THEN MAX_MESSAGE_LENGTH * list[i].width + TruncationMarkLength
              ELSE list[i].length * list[i].width]

RoleLength(role) == IF role = "user" THEN 4 ELSE 9

\* the length of {"role":"...","content":"..."}
EntryLength(entry) == 24 + RoleLength(entry.role) + entry.json

RECURSIVE EntriesLength(_)
EntriesLength(history) ==
    IF history = <<>> THEN 0
    ELSE EntryLength(Head(history)) + EntriesLength(Tail(history))

\* JSON.stringify({ chatHistory }).length: {"chatHistory":[ ... ]} with a
\* comma between two entries
SerializedLength(history) ==
    18 + EntriesLength(history) + (IF history = <<>> THEN 0 ELSE Len(history) - 1)

\* while (serialized.length > MAX_METADATA_SIZE && chatHistory.length > 1)
\*   chatHistory = chatHistory.slice(1)
RECURSIVE Trimmed(_)
Trimmed(history) ==
    IF SerializedLength(history) > MAX_METADATA_SIZE /\ Len(history) > 1
    THEN Trimmed(Tail(history))
    ELSE history

\* the chatHistory that the auto-connect effect builds from the store
BuildChatHistory(list) ==
    LET kept == SliceLast(FilterIndices(list), MAX_HISTORY_MESSAGES)
    IN  Trimmed([k \in 1..Len(kept) |-> HistoryMessage(list, kept[k])])

\* connect(language, { chatHistory }) or connect(language)
ConnectCall(history) == [chatHistory |-> history, withHistory |-> Len(history) > 0]

\* the auto-connect effect at the mount of the provider (hasConnected.current
\* is false)
AutoConnect ==
    /\ connectCalls = <<>>
    /\ connectCalls' = <<ConnectCall(BuildChatHistory(messages))>>
    /\ lastOp' = Op("autoConnect", Len(messages))
    /\ UNCHANGED <<mounted, events, pipelineVars, syncVars, apiVars, adkVars, bodyVars,
                   appVars, startVars>>

(***************************************************************************)
(* SpecHistory: one mount of LiveKitProvider over a store of messages.     *)
(***************************************************************************)
InitHistory ==
    /\ InitExceptMessages
    /\ messages \in StoredLists(MaxStoredMessages)

NextHistory == AutoConnect

SpecHistory == InitHistory /\ [][NextHistory]_vars

(***************************************************************************)
(* SessionAPIClient.toConversationMessages: the conversations of a request  *)
(* body, each with its role and the index of its message.                  *)
(***************************************************************************)
\* a filter that lets every message with text through
ConvertibleWithText(m) == ~m.empty

\* (m) => m.isFinal !== false && m.message.trim()
Convertible(m) == m.isFinal # FALSE /\ ~m.empty

\* .filter(...).map((m) => ({ role: m.isUser ? 'user' : 'model', text: m.message }))
ConversationMessages(list) ==
    LET kept == SelectSeq([i \in 1..Len(list) |-> i], LAMBDA i : Convertible(list[i]))
    IN  [k \in 1..Len(kept) |->
            [index |-> kept[k],
             role |-> IF list[kept[k]].isUser THEN "user" ELSE "model"]]

\* the messages of a batch: every combination of isUser, isFinal and blank text
BatchMessages ==
    { StoredMessage(u, f, e, 3, 1) : u \in BOOLEAN, f \in BOOLEAN, e \in BOOLEAN }

RECURSIVE ListsUpTo(_, _)
ListsUpTo(kinds, max) ==
    IF max = 0 THEN {<<>>}
    ELSE LET shorter == ListsUpTo(kinds, max - 1)
         IN  shorter \cup {Append(l, m) : l \in shorter, m \in kinds}

\* injectBatchEvents(sessionId, userId, messages) up to its POST: nothing is
\* posted when no conversation is left
PostBatch ==
    /\ lastOp.name = "init"
    /\ postedBodies' = IF ConversationMessages(messages) = <<>>
                       THEN postedBodies
                       ELSE Append(postedBodies, ConversationMessages(messages))
    /\ lastOp' = Op("postBatch", Len(messages))
    /\ UNCHANGED <<mounted, events, pipelineVars, syncVars, apiVars, adkVars, liveKitVars,
                   appVars, startVars>>

(***************************************************************************)
(* SpecConvert: one call of injectBatchEvents over a list of messages.     *)
(***************************************************************************)
InitConvert ==
    /\ InitExceptMessages
    /\ messages \in ListsUpTo(BatchMessages, MaxBatchMessages)

NextConvert == PostBatch

SpecConvert == InitConvert /\ [][NextConvert]_vars

(***************************************************************************)
(* The start of the conversation.  AvatarViewWithSession reacts to the     *)
(* agent state 'listening'; AvatarView sends start_conversation from a     *)
(* timer that its effect arms once Unity is loaded and the agent is ready. *)
(* The repository holds two versions of AvatarViewWithSession: the one of  *)
(* App.tsx sends start_conversation itself, the one of ToolPopup.tsx       *)
(* leaves it to AvatarView.  The agent is a participant of the room from   *)
(* the moment its state is 'listening'.                                    *)
(***************************************************************************)
Hosts == {"App", "ToolPopup"}

\* the agent state becomes 'listening'; the effect of AvatarViewWithSession
\* runs with conversationStarted false: onAgentReady(), onConversationStart()
\* and, in App.tsx, the start_conversation RPC
AgentListening ==
    /\ mounted
    /\ agentState # "listening"
    /\ agentState' = "listening"
    /\ \E host \in Hosts :
          /\ IF ~conversationStarted
             THEN /\ isAgentReady' = TRUE
                  /\ conversationStarted' = TRUE
                  /\ startRpcs' = IF host = "App"
                                  THEN Append(startRpcs, "AvatarViewWithSession")
                                  ELSE startRpcs
             ELSE UNCHANGED <<isAgentReady, conversationStarted, startRpcs>>
          /\ lastOp' = Op("listening", host)
    /\ UNCHANGED <<mounted, events, pipelineVars, syncVars, apiVars, adkVars, liveKitVars,
                   bodyVars, localParticipant, hasStartedConversation, startTimer,
                   startDeps>>

\* useLocalParticipant or useRoomContext returns a new object
ParticipantChanged(max) ==
    /\ mounted
    /\ events < max
    /\ events' = events + 1
    /\ localParticipant' = localParticipant + 1
    /\ lastOp' = Op("participant", localParticipant + 1)
    /\ UNCHANGED <<mounted, pipelineVars, syncVars, apiVars, adkVars, liveKitVars,
                   bodyVars, appVars, agentState, hasStartedConversation, startTimer,
                   startDeps, startRpcs>>

\* [isLoaded, isAgentReady, localParticipant, room]
StartDeps == <<isLoaded, isAgentReady, localParticipant>>

\* isLoaded && isAgentReady && !hasStartedConversation.current
ShouldStart(loaded, ready, started) == loaded /\ ready /\ ~started

\* AvatarView renders with changed dependencies and the start effect runs:
\* the cleanup of the previous run clears its timer, then the body sets the
\* flag and arms the timer
StartEffect ==
    /\ mounted
    /\ startDeps # Some(StartDeps)
    /\ startDeps' = Some(StartDeps)
    /\ IF ShouldStart(isLoaded, isAgentReady, hasStartedConversation)
       THEN /\ hasStartedConversation' = TRUE
            /\ startTimer' = TRUE
       ELSE /\ startTimer' = FALSE
            /\ UNCHANGED hasStartedConversation
    /\ lastOp' = Op("startEffect", 0)
    /\ UNCHANGED <<mounted, events, pipelineVars, syncVars, apiVars, adkVars, liveKitVars,
                   bodyVars, appVars, agentState, localParticipant, startRpcs>>

\* the timer fires after 1.5 s: localParticipant and room are set and the
\* agent is in the room, so performRpc sends start_conversation
StartTimerFires ==
    /\ mounted
    /\ startTimer
    /\ startTimer' = FALSE
    /\ startRpcs' = Append(startRpcs, "AvatarView")
    /\ lastOp' = Op("startTimer", 0)
    /\ UNCHANGED <<mounted, events, pipelineVars, syncVars, apiVars, adkVars, liveKitVars,
                   bodyVars, appVars, agentState, localParticipant,
                   hasStartedConversation, startDeps>>

(***************************************************************************)
(* SpecStart: the avatar screen up to the start of the conversation.       *)
(* SpecStartFair adds what the scheduling of the browser gives: a pending   *)
(* effect runs and a pending timer fires.                                  *)
(***************************************************************************)
StartMount == Mount(MaxStartEvents)
StartParticipantChanged == ParticipantChanged(MaxStartEvents)

NextStart ==
    \/ StartMount
    \/ Unmount
    \/ UnityLoaded
    \/ AgentListening
    \/ StartParticipantChanged
    \/ StartEffect
    \/ StartTimerFires

SpecStart == Init /\ [][NextStart]_vars

SpecStartFair ==
    /\ SpecStart
    /\ WF_vars(StartEffect)
    /\ WF_vars(StartTimerFires)

(***************************************************************************)
(* Properties.                                                             *)
(***************************************************************************)
Range(seq) == {seq[i] : i \in 1..Len(seq)}
Position(seq, x) == CHOOSE i \in 1..Len(seq) : seq[i] = x
AdmittedRefs == [i \in 1..Len(hist.admitted) |-> hist.admitted[i].ref]
DequeuedRefs == [i \in 1..Len(hist.dequeued) |-> hist.dequeued[i].ref]
\* the calls that forward a queue entry, and the 'interrupted' calls
ForwardCalls == SelectSeq(unityLog, LAMBDA c : c.ref # 0)
InterruptCalls == SelectSeq(unityLog, LAMBDA c : c.ref = 0)

\* C1: in a session that has handled N 208-byte agent packets, whatever else
\* was interleaved (ticks, 'final', 'interrupted', ignored packets), exactly
\* floor(N/3) frames have been pushed to frameQueue and the k-th frame pushed
\* is the 3k-th frame received.
C1_DownsampleRatio ==
    /\ Len(hist.pushedOrds) = hist.framesSeen \div 3
    /\ \A k \in 1..Len(hist.pushedOrds) : hist.pushedOrds[k] = 3 * k

\* six frames with an interrupt and a tick in between: two frames pushed
C1_Witness ==
    /\ hist.framesSeen = 6
    /\ Len(hist.pushedOrds) = 2
    /\ hist.interrupts > 0
    /\ framesDequeued > 0

\* C2: with no 'interrupted' signal in the session, the entries are dequeued
\* in the order of their admission (the entries dequeued are the first
\* entries admitted, in that order), and the calls that forward entries to
\* the rendering module follow the admission order: no entry is forwarded
\* after an entry admitted later than it.
C2_OrderPreservation ==
    hist.interrupts = 0 =>
        /\ Len(DequeuedRefs) <= Len(AdmittedRefs)
        /\ DequeuedRefs = SubSeq(AdmittedRefs, 1, Len(DequeuedRefs))
        /\ \A i, j \in 1..Len(ForwardCalls) :
              i < j => /\ ForwardCalls[i].ref \in Range(AdmittedRefs)
                       /\ ForwardCalls[j].ref \in Range(AdmittedRefs)
                       /\ Position(AdmittedRefs, ForwardCalls[i].ref)
                             <= Position(AdmittedRefs, ForwardCalls[j].ref)

\* two entries admitted, dequeued and forwarded one after the other
C2_Witness ==
    /\ hist.interrupts = 0
    /\ Len(hist.admitted) >= 2
    /\ Len(ForwardCalls) = 2
    /\ ForwardCalls[1].ref = hist.admitted[1].ref
    /\ ForwardCalls[2].ref = hist.admitted[2].ref

\* C3: right after an agent 'interrupted' packet is handled frameQueue is
\* empty, whatever it held before, and a tick that comes next dequeues
\* nothing.
C3_InterruptFlush ==
    /\ [](lastOp.name = "interrupted" => frameQueue = <<>>)
    /\ [][(lastOp.name = "interrupted" /\ lastOp'.name = "tick")
             => UNCHANGED <<frameQueue, latestFrame, frameCount, framesDequeued>>]_vars

\* six frames (two admitted, none dequeued), then 'interrupted'
C3_Witness ==
    /\ lastOp.name = "interrupted"
    /\ lastOp.arg = 2
    /\ hist.framesSeen = 6
    /\ framesDequeued = 0

\* C4: once an agent 'interrupted' packet has been handled, no frame or
\* 'final' marker that was pending then (still in frameQueue, or already in
\* latestFrame but not yet forwarded) is forwarded to the rendering module.
C4_NoPreInterruptEmission ==
    \A i \in 1..Len(unityLog) : unityLog[i].ref \notin hist.cancelled

\* C5: every agent 'interrupted' packet raises its own notification: once the
\* view has rendered every state change, the rendering module has received at
\* least one 'interrupted' call for each 'interrupted' packet that was handled
\* while the module was loaded.
C5_EachInterruptObservable ==
    (mounted /\ ~NeedsRender) => Len(InterruptCalls) >= hist.interruptsLoaded

\* C6: every entry dequeued while the rendering module was loaded, and not
\* cancelled by an interrupt, is forwarded exactly once: once the view has
\* rendered every state change, exactly one call carries it.
C6_ExactlyOnce ==
    (mounted /\ ~NeedsRender) =>
        \A i \in 1..Len(hist.dequeued) :
            (hist.dequeued[i].loaded /\ hist.dequeued[i].ref \notin hist.cancelled) =>
                Cardinality({j \in 1..Len(unityLog) :
                                unityLog[j].ref = hist.dequeued[i].ref}) = 1

\* C7: when a session starts (AvatarView has just mounted, no packet handled
\* yet), the received counter, the dequeued and sent counters and the
\* first-frame timestamps read 0 / null and frameQueue is empty.
C7_ResetOnTeardown ==
    lastOp.name = "mount" =>
        /\ totalFramesReceived = 0
        /\ framesDequeued = 0
        /\ firstFrameTime = None
        /\ frameQueue = <<>>
        /\ unitySentCountRef = 0
        /\ firstUnityFrameTimeRef = None
        /\ unitySentCount = 0
        /\ firstUnityFrameTime = None

\* the sender of the packet recorded in op has an identity that starts with 'agent'
FromAgent(op) ==
    LET participant == op.packet[1].participant
    IN  /\ participant.defined
        /\ participant.identity # None
        /\ Len(participant.identity[1]) >= 5
        /\ \A i \in 1..5 : participant.identity[1][i] = AgentPrefix[i]

\* C8: a packet whose participant is undefined, has no identity or has an
\* identity that does not start with 'agent' leaves totalFramesReceived,
\* firstFrameTime, frameQueue and interruptSignal unchanged, whatever its
\* payload.
C8_SenderFilter ==
    [][(lastOp'.packet # None /\ ~FromAgent(lastOp'))
          => UNCHANGED <<totalFramesReceived, firstFrameTime, frameQueue, interruptSignal>>]_vars

\* an 'interrupted' packet of participant 'user-agent', ignored with entries queued
C8_Witness ==
    /\ lastOp.name = "ignored"
    /\ lastOp.packet # None
    /\ lastOp.packet[1].kind = "interrupted"
    /\ lastOp.packet[1].participant.identity # None
    /\ frameQueue # <<>>
    /\ totalFramesReceived > 0

\* C9: an agent packet that decodes to 'final' is appended at the tail of
\* frameQueue whatever the downsample counter is and leaves
\* totalFramesReceived unchanged; every queued entry is newer than every
\* entry dequeued so far, so that 'final' is dequeued after all entries
\* admitted before it; two frames followed by 'final' leave the queue holding
\* the final marker alone.
C9_FinalIsQueued ==
    /\ [][(lastOp'.packet # None /\ FromAgent(lastOp') /\ lastOp'.packet[1].kind = "final")
             => /\ frameQueue' = Append(frameQueue, [ref |-> events', kind |-> "final"])
                /\ totalFramesReceived' = totalFramesReceived]_vars
    /\ [](\A i \in 1..Len(frameQueue), j \in 1..Len(hist.dequeued) :
             frameQueue[i].ref > hist.dequeued[j].ref)
    /\ []((lastOp.name = "final" /\ hist.framesSeen = 2 /\ hist.interrupts = 0
              /\ Len(hist.admitted) = 1)
             => (Len(frameQueue) = 1 /\ frameQueue[1].kind = "final"))

\* two frames, 'final', and the tick that moves the final marker to latestFrame
C9_Witness ==
    /\ lastOp.name = "tick"
    /\ hist.framesSeen = 2
    /\ totalFramesReceived = 2
    /\ Len(hist.dequeued) = 1
    /\ latestFrame # None
    /\ latestFrame[1].kind = "final"
    /\ frameQueue = <<>>

\* C10: a tick removes at most one entry, the oldest, from frameQueue; a tick
\* that finds the queue empty leaves frameQueue, latestFrame, frameCount and
\* framesDequeued unchanged, makes no call to the rendering module and leaves
\* no render pending that was not pending before.
C10_EmitterTick ==
    [][lastOp'.name = "tick"
          => IF frameQueue = <<>>
             THEN /\ UNCHANGED <<frameQueue, latestFrame, frameCount, framesDequeued, unityLog>>
                  /\ NeedsRender' = NeedsRender
             ELSE /\ frameQueue' = Tail(frameQueue)
                  /\ latestFrame' = Some(Head(frameQueue))
                  /\ Len(frameQueue') = Len(frameQueue) - 1
                  /\ unityLog' = unityLog]_vars

\* a tick on an empty queue after an earlier entry was dequeued and forwarded
C10_Witness ==
    /\ lastOp.name = "tick"
    /\ lastOp.arg = 0
    /\ latestFrame # None
    /\ Len(unityLog) > 0

\* the entries dequeued since the last agent packet was handled: a drain
DrainEntries ==
    SubSeq(hist.dequeued, Len(hist.dequeued) - hist.run + 1, Len(hist.dequeued))

\* C11: when k entries were queued and k ticks have run with no agent packet
\* in between (the rendering module loaded all along), the queue is empty
\* and, once the view has rendered every state change, the k entries have been
\* forwarded to the rendering module, one call each, in admission order.
C11_BoundedDrain ==
    (/\ mounted
     /\ hist.run > 0
     /\ frameQueue = <<>>
     /\ ~NeedsRender
     /\ \A i \in 1..Len(DrainEntries) : DrainEntries[i].loaded)
    => /\ Len(ForwardCalls) >= hist.run
       /\ \A i \in 1..hist.run :
             ForwardCalls[Len(ForwardCalls) - hist.run + i].ref = DrainEntries[i].ref

\* the fields of a string separated by ','
Fields(s) ==
    LET commas == SelectSeq([i \in 1..Len(s) |-> i], LAMBDA i : s[i] = 44)
        n == Len(commas) + 1
    IN  [k \in 1..n |->
            SubSeq(s, IF k = 1 THEN 1 ELSE commas[k - 1] + 1,
                      IF k = n THEN Len(s) ELSE commas[k] - 1)]

\* a decimal numeral without sign or leading zero, and its value
IsDecimal(field) ==
    /\ Len(field) >= 1
    /\ \A i \in 1..Len(field) : field[i] \in 48..57
    /\ (Len(field) > 1 => field[1] # 48)
DecimalValue(field) ==
    LET value[k \in 0..Len(field)] ==
            IF k = 0 THEN 0 ELSE 10 * value[k - 1] + (field[k] - 48)
    IN  value[Len(field)]

\* the string sent for a 208-byte frame lists its bytes
FrameEncoded ==
    LET bytes == PayloadBytes("frame")
        fields == Fields(FrameStringText["frame"].join)
    IN  /\ Len(fields) = 208
        /\ \A i \in 1..208 :
              /\ IsDecimal(fields[i])
              /\ DecimalValue(fields[i]) \in 0..255
              /\ DecimalValue(fields[i]) = bytes[i]

\* the queue entry that a call forwards
EntryOf(call) == hist.admitted[Position(AdmittedRefs, call.ref)]

\* C12: every call that forwards a queue entry goes to object 'ReactBridge',
\* method 'OnAnimationData'; for a 208-byte frame its parameter is the 208
\* byte values in decimal, in byte order, separated by ',' (208 fields, each
\* in 0..255); for a 'final' marker its parameter is the string 'final'.
C12_EmissionEncoding ==
    \A i \in 1..Len(ForwardCalls) :
        LET call == ForwardCalls[i]
            kind == EntryOf(call).kind
        IN  /\ call.object = "ReactBridge"
            /\ call.method = "OnAnimationData"
            /\ kind \in {"frame", "final"}
            /\ (kind = "frame" =>
                   /\ "join" \in DOMAIN call.parameter
                   /\ call.parameter.join = "frame"
                   /\ FrameEncoded)
            /\ (kind = "final" =>
                   ParameterText(call.parameter) = <<102, 105, 110, 97, 108>>)

\* a frame and then a 'final' marker have been forwarded
C12_Witness ==
    /\ Len(ForwardCalls) >= 2
    /\ EntryOf(ForwardCalls[1]).kind = "frame"
    /\ EntryOf(ForwardCalls[2]).kind = "final"

\* the packet recorded in op is a control text the handler does not know:
\* its length is not 208 and its text is neither 'final' nor 'interrupted' (a
\* payload decodes to one of these ASCII words only if it is the word's bytes)
Unrecognized(op) ==
    LET bytes == PayloadBytes(op.packet[1].kind)
    IN  /\ Len(bytes) # 208
        /\ bytes # <<102, 105, 110, 97, 108>>
        /\ bytes # <<105, 110, 116, 101, 114, 114, 117, 112, 116, 101, 100>>

\* C13: an agent packet whose length is not 208 and whose text is neither
\* 'final' nor 'interrupted' leaves frameQueue, totalFramesReceived,
\* firstFrameTime and interruptSignal (and every other ref and state of the
\* hook) unchanged, and a frame packet handled right after it is counted and
\* downsampled as usual.
C13_UnrecognizedDropped ==
    /\ [][(lastOp'.packet # None /\ FromAgent(lastOp') /\ Unrecognized(lastOp'))
             => /\ lastOp'.name = "dropped"
                /\ UNCHANGED <<frameQueue, totalFramesReceived, firstFrameTime, interruptSignal>>
                /\ UNCHANGED <<hookRefs, hookState>>]_vars
    /\ [][(lastOp.name = "dropped" /\ lastOp'.name = "frame")
             => /\ totalFramesReceived' = totalFramesReceived + 1
                /\ frameQueue' = IF totalFramesReceived' % 3 = 0
                                 THEN Append(frameQueue, [ref |-> events', kind |-> "frame"])
                                 ELSE frameQueue]_vars

\* an agent packet with an invalid byte before 'final' has been dropped while
\* an entry was queued
C13_Witness ==
    /\ lastOp.name = "dropped"
    /\ lastOp.packet # None
    /\ lastOp.packet[1].kind = "bad"
    /\ frameQueue # <<>>
    /\ totalFramesReceived = 3

\* C14: every 'interrupted' packet handled sets interruptSignal to a value
\* strictly greater than the value it had, also when two of them are handled
\* within the same millisecond.
C14_TokenIncreases ==
    [][lastOp'.name = "interrupted" => interruptSignal' > interruptSignal]_vars

\* C15: when the user interrupts the agent (handleInterruptAgent sends
\* 'interrupted' to the rendering module), no entry that was in frameQueue at
\* that moment is forwarded to the rendering module afterwards.
C15_BargeInFlushes ==
    [][\A i \in (Len(unityLog) + 1)..Len(unityLog') :
           unityLog'[i].ref \notin hist.barged]_vars

\* the payload of an entry is a 208-byte frame or the text 'final'
FrameOrFinal(entry) ==
    LET bytes == PayloadBytes(entry.kind)
    IN  \/ Len(bytes) = 208
        \/ bytes = <<102, 105, 110, 97, 108>>

\* C16: in every reachable state each element of frameQueue is a 208-byte
\* frame or a payload that reads 'final', and so is latestFrame when it is
\* set: an 'interrupted' payload or any other text never occupies a queue slot
\* and is never delivered through latestFrame.
C16_QueueEntryType ==
    /\ \A i \in 1..Len(frameQueue) : FrameOrFinal(frameQueue[i])
    /\ latestFrame # None => FrameOrFinal(latestFrame[1])

\* after an 'interrupted' packet: a frame and a final marker queued, an
\* earlier entry in latestFrame
C16_Witness ==
    /\ hist.interrupts > 0
    /\ Len(frameQueue) = 2
    /\ frameQueue[1].kind = "frame"
    /\ frameQueue[2].kind = "final"
    /\ latestFrame # None

\* the 'final' signals accepted in this session
FinalsAccepted == Cardinality({i \in 1..Len(hist.admitted) : hist.admitted[i].kind = "final"})

\* C17: while the hook is mounted, framesDequeued + frameQueue.length is at
\* most floor(totalFramesReceived / 3) + the number of 'final' signals
\* accepted, and equal to it as long as no 'interrupted' has been handled; the
\* length of the queue changes only by +1 when a frame or a final marker is
\* admitted, by -1 on a tick that finds it non-empty, and to 0 on an
\* interrupt.
C17_QueueConservation ==
    /\ [](mounted =>
            framesDequeued + Len(frameQueue) <= (totalFramesReceived \div 3) + FinalsAccepted)
    /\ []((mounted /\ hist.interrupts = 0) =>
            framesDequeued + Len(frameQueue) = (totalFramesReceived \div 3) + FinalsAccepted)
    /\ [][(mounted /\ mounted' /\ Len(frameQueue') # Len(frameQueue))
             => \/ /\ lastOp'.name \in {"frame", "final"}
                   /\ Len(frameQueue') = Len(frameQueue) + 1
                \/ /\ lastOp'.name = "tick"
                   /\ Len(frameQueue') = Len(frameQueue) - 1
                \/ /\ lastOp'.name = "interrupted"
                   /\ Len(frameQueue') = 0]_vars

\* three frames and a 'final' admitted, one of them dequeued, then after an
\* interrupt another final marker: the sum is below the bound
C17_Witness ==
    /\ mounted
    /\ hist.interrupts = 1
    /\ totalFramesReceived = 3
    /\ FinalsAccepted = 2
    /\ framesDequeued = 1
    /\ Len(frameQueue) = 1

\* C18: in ADK mode, whatever the interleaving of the invocations of
\* handleSwitchToChat and of their completions, no message of the store is
\* part of more than one successful injectBatchEvents call.
C18_NoDuplicateBatchSync ==
    \A i, j \in 1..Len(injected) : i < j => injected[i] \cap injected[j] = {}

\* C19: the messages injected into the ADK session are messages of the
\* avatar (LiveKit) conversation: no message that useADK.sendMessage wrote to
\* the store is part of a successful injectBatchEvents call.
C19_AvatarConversationOnly ==
    \A i \in 1..Len(injected) : \A id \in injected[i] : messages[id].source = "avatar"

\* C20: when injectBatchEvents rejects, the handler ends with the screen on
\* 'chat' (no error reaches its caller), lastBatchSyncedIndex and the
\* injected conversations are as before, and an invocation of
\* handleSwitchToChat that comes next offers the messages of the rejected
\* call again.
C20_FailureContained ==
    /\ [][lastOp'.name = "batchRejected"
             => /\ ~mounted'
                /\ UNCHANGED <<lastBatchSyncedIndex, injected, messages>>]_vars
    /\ [][(lastOp.name = "batchRejected" /\ lastOp'.name = "switchToChat")
             => lastOp.arg.conversations \subseteq lastOp'.arg.conversations]_vars

\* the number of requests of one kind in a sequence of requests
Requests(call, request) ==
    Cardinality({i \in 1..Len(call.requests) : call.requests[i] = request})
Settled(call) == call.stage \in {"resolved", "rejected"}

\* C21: a call of injectBatchEvents whose first batch POST fails with 404
\* calls createSession once and, when that succeeds, repeats the batch POST
\* exactly once; a failure of createSession or of the second POST is thrown
\* with no further request.  A first POST that fails with any other status
\* (or with no response) is thrown with no createSession and no second POST.
C21_NotFoundRecovery ==
    \A n \in 1..Len(apiCalls) :
        LET call == apiCalls[n]
            responses == call.responses
        IN  /\ Requests(call, "create") <= 1
            /\ Requests(call, "batch") <= 2
            /\ (Len(responses) >= 1 /\ responses[1] = 404) =>
                   /\ Len(call.requests) >= 2
                   /\ call.requests[2] = "create"
                   /\ Len(responses) >= 2 =>
                         IF responses[2] \in 200..299
                         THEN /\ call.requests = <<"batch", "create", "batch">>
                              /\ Len(responses) = 3 =>
                                    call.stage = IF responses[3] \in 200..299
                                                 THEN "resolved" ELSE "rejected"
                         ELSE /\ call.requests = <<"batch", "create">>
                              /\ call.stage = "rejected"
            /\ (Len(responses) >= 1 /\ responses[1] \notin (200..299) \cup {404}) =>
                   /\ call.requests = <<"batch">>
                   /\ call.stage = "rejected"
            /\ (Len(responses) >= 1 /\ responses[1] \in 200..299) =>
                   /\ call.requests = <<"batch">>
                   /\ call.stage = "resolved"

\* a call whose second POST failed with 404 again, and a call whose first
\* POST failed with 500
C21_Witness ==
    \E n, m \in 1..Len(apiCalls) :
        /\ apiCalls[n].responses = <<404, 200, 404>>
        /\ apiCalls[n].stage = "rejected"
        /\ apiCalls[m].responses = <<500>>
        /\ apiCalls[m].stage = "rejected"

\* the requests of one kind that the calls of sendMessage have made, and
\* whether a session POST has succeeded
AdkRequests(calls, request) ==
    Cardinality({<<n, i>> \in (1..Len(calls)) \X (1..2) :
                    i <= Len(calls[n].requests) /\ calls[n].requests[i] = request})
SessionPostSucceeded(calls) == \E n \in 1..Len(calls) : calls[n].created

\* C22: once a session POST has succeeded, no call of sendMessage sends
\* another session POST, whether calls overlap or the chat view was remounted
\* in between; and /run_sse is requested only when a session POST has
\* succeeded.
C22_SessionCreatedOnce ==
    /\ [][AdkRequests(adkCalls', "create") > AdkRequests(adkCalls, "create")
             => ~SessionPostSucceeded(adkCalls)]_vars
    /\ [][AdkRequests(adkCalls', "run_sse") > AdkRequests(adkCalls, "run_sse")
             => SessionPostSucceeded(adkCalls')]_vars

\* two overlapping calls have each sent a session POST, one POST succeeded,
\* and a later call went straight to /run_sse
C22_Witness ==
    /\ Len(adkCalls) = 3
    /\ adkCalls[1].requests[1] = "create"
    /\ adkCalls[2].requests[1] = "create"
    /\ SessionPostSucceeded(adkCalls)
    /\ adkCalls[3].requests = <<"run_sse">>

\* the indices in the store of the entries of a chat history
HistoryIndices(history) == [k \in 1..Len(history) |-> history[k].index]
IsSuffix(short, long) ==
    /\ Len(short) <= Len(long)
    /\ short = SubSeq(long, Len(long) - Len(short) + 1, Len(long))

AtMostTwentyEntries(history) == Len(history) <= 20
ContentAtMost(history, limit) == \A k \in 1..Len(history) : history[k].length <= limit
SuffixOfEligible(history) ==
    /\ IsSuffix(HistoryIndices(history), FilterIndices(messages))
    /\ \A k \in 1..Len(history) :
          history[k].role = (IF messages[history[k].index].isUser
                             THEN "user" ELSE "assistant")
FitsOrSingle(history) == SerializedLength(history) <= 4096 \/ Len(history) = 1

\* the limits of C23 apart from the length of the content
C23_OtherLimits ==
    \A n \in 1..Len(connectCalls) :
        /\ AtMostTwentyEntries(connectCalls[n].chatHistory)
        /\ SuffixOfEligible(connectCalls[n].chatHistory)
        /\ FitsOrSingle(connectCalls[n].chatHistory)

\* C23: the chatHistory that the auto-connect effect of LiveKitProvider passes
\* to connect has at most 20 entries, each content has at most 201
\* characters, the entries are the most recent eligible messages in their
\* original order, and the serialized history has at most 4096 characters
\* unless the history has exactly one entry.
C23_ChatHistoryLimits ==
    \A n \in 1..Len(connectCalls) :
        /\ AtMostTwentyEntries(connectCalls[n].chatHistory)
        /\ ContentAtMost(connectCalls[n].chatHistory, 201)
        /\ SuffixOfEligible(connectCalls[n].chatHistory)
        /\ FitsOrSingle(connectCalls[n].chatHistory)

\* a connect call whose history was cut to 20 entries and then trimmed by size
C23_TrimmedHistory ==
    \E n \in 1..Len(connectCalls) :
        /\ Len(FilterIndices(messages)) > 20
        /\ Len(connectCalls[n].chatHistory) \in 2..19

SentBy(component) == \E i \in 1..Len(startRpcs) : startRpcs[i] = component
StartCondition == mounted /\ isLoaded /\ isAgentReady

\* the RPC of the timer is sent once the view is loaded and the agent ready
C25_EventuallySent == StartCondition ~> (~mounted \/ SentBy("AvatarView"))

\* at most one start_conversation RPC in a session
C25_AtMostOnce == Len(startRpcs) <= 1

\* C25: once Unity is loaded and the agent is ready and AvatarView stays
\* mounted, the start_conversation RPC of the 1.5 s timer is eventually sent,
\* and at most one start_conversation RPC is sent in an avatar session,
\* whatever the re-renders and the changes of localParticipant or room.
C25_StartConversationOnce ==
    /\ StartCondition ~> (~mounted \/ SentBy("AvatarView"))
    /\ [](Len(startRpcs) <= 1)

\* the index never exceeds the number of messages in the store
C26_IndexWithinStore == lastBatchSyncedIndex <= Len(messages)

\* C26: resetSession apart (nothing calls it), lastBatchSyncedIndex never
\* decreases and never exceeds the number of messages in the session store,
\* however the background syncs overlap with each other and with the
\* additions of messages.
C26_SyncIndexInvariant ==
    /\ [][lastBatchSyncedIndex' >= lastBatchSyncedIndex]_vars
    /\ [](lastBatchSyncedIndex <= Len(messages))

====
